---- MODULE Spec2Model ----
(***************************************************************************)
(* The neighborhood globe of adventure-time: the neighbors API handler,   *)
(* the GlobePage component with its two fetches and its loading timer,    *)
(* AirportDots (grouping, airport lookup, cluster layout, colour) and     *)
(* BlinkingDot's per-frame scale.                                          *)
(*                                                                         *)
(* Numbers of the geometry are exact: an element of Q(sqrt 3) is a record  *)
(* [a, b, d] standing for (a + b*sqrt(3)) / d, and d = 0 stands for NaN.   *)
(* Angles are whole degrees that are multiples of 30, where sine and       *)
(* cosine lie in Q(sqrt 3).  Floating-point rounding is not modelled.      *)
(***************************************************************************)
EXTENDS Integers, Sequences, FiniteSets, TLC

(***************************************************************************)
(* JavaScript values: [t |-> tag, v |-> payload].  A string is a sequence  *)
(* of one-character strings.                                               *)
(***************************************************************************)
Undefined == [t |-> "undefined", v |-> 0]

Null == [t |-> "null", v |-> 0]

JsNaN == [t |-> "nan", v |-> 0]

Str(s) == [t |-> "str", v |-> s]

Num(n) == [t |-> "num", v |-> n]

Bool(b) == [t |-> "bool", v |-> b]

\* A number with one decimal, given in tenths (12.5 is Tenths(125)).
Tenths(n) == [t |-> "tenths", v |-> n]

\* An array of values, and an object with its fields.
Arr(s) == [t |-> "arr", v |-> s]

Obj(r) == [t |-> "obj", v |-> r]

\* ToBoolean, as `!x`, `x ? :` and `||` apply it.
Truthy(x) ==
  CASE x.t = "undefined" -> FALSE
    [] x.t = "null" -> FALSE
    [] x.t = "nan" -> FALSE
    [] x.t = "str" -> Len(x.v) > 0
    [] x.t = "num" -> x.v # 0
    [] x.t = "bool" -> x.v
    [] x.t = "tenths" -> x.v # 0
    [] x.t = "arr" -> TRUE
    [] x.t = "obj" -> TRUE

\* x || y
Or(x, y) == IF Truthy(x) THEN x ELSE y

LowerLetters == <<"a", "b", "c", "f", "k", "o", "s", "x", "y">>

UpperLetters == <<"A", "B", "C", "F", "K", "O", "S", "X", "Y">>

ToUpperChar(c) ==
  IF \E i \in 1..Len(LowerLetters) : LowerLetters[i] = c
  THEN UpperLetters[CHOOSE i \in 1..Len(LowerLetters) : LowerLetters[i] = c]
  ELSE c

\* String.prototype.toUpperCase on a string value.
ToUpperCase(x) == Str([i \in 1..Len(x.v) |-> ToUpperChar(x.v[i])])

\* a?.toUpperCase(): undefined for undefined and null.
OptToUpperCase(x) ==
  IF x.t \in {"undefined", "null"} THEN Undefined ELSE ToUpperCase(x)

Digits == <<"0", "1", "2", "3", "4", "5", "6", "7", "8", "9">>

IsDigit(c) == \E i \in 1..10 : Digits[i] = c

DigitValue(c) == (CHOOSE i \in 1..10 : Digits[i] = c) - 1

RECURSIVE ParseDigits(_, _)
ParseDigits(s, acc) ==
  IF s = <<>> THEN acc
  ELSE ParseDigits(Tail(s), 10 * acc + DigitValue(Head(s)))

RECURSIVE TrimLeft(_)
TrimLeft(s) == IF s # <<>> /\ Head(s) = " " THEN TrimLeft(Tail(s)) ELSE s

RECURSIVE TrimRight(_)
TrimRight(s) ==
  IF s # <<>> /\ s[Len(s)] = " " THEN TrimRight(SubSeq(s, 1, Len(s) - 1)) ELSE s

\* StringToNumber for decimal integer literals: blanks are trimmed, the
\* empty string is 0, anything that is not an optionally signed run of
\* digits is NaN.
StringToNumber(s) ==
  LET t == TrimRight(TrimLeft(s))
      signed == t # <<>> /\ Head(t) \in {"-", "+"}
      body == IF signed THEN Tail(t) ELSE t
  IN  IF t = <<>> THEN Num(0)
      ELSE IF body = <<>> \/ \E i \in 1..Len(body) : ~IsDigit(body[i]) THEN JsNaN
      ELSE IF signed /\ Head(t) = "-" THEN Num(0 - ParseDigits(body, 0))
      ELSE Num(ParseDigits(body, 0))

\* Number(x)
ToNumber(x) ==
  CASE x.t = "undefined" -> JsNaN
    [] x.t = "null" -> Num(0)
    [] x.t = "nan" -> JsNaN
    [] x.t = "num" -> x
    [] x.t = "bool" -> Num(IF x.v THEN 1 ELSE 0)
    [] x.t = "str" -> StringToNumber(x.v)

(***************************************************************************)
(* Exact arithmetic in Q(sqrt 3), with NaN.                                *)
(***************************************************************************)
Abs(n) == IF n < 0 THEN 0 - n ELSE n

RECURSIVE Gcd(_, _)
Gcd(m, n) == IF n = 0 THEN Abs(m) ELSE Gcd(n, m % Abs(n))

QNaN == [a |-> 0, b |-> 0, d |-> 0]

IsNaN(x) == x.d = 0

\* (a + b*sqrt 3) / d in lowest terms, d > 0.
Q(a, b, d) ==
  LET g == Gcd(Gcd(a, b), d)
      s == IF d < 0 THEN 0 - 1 ELSE 1
  IN  IF d = 0 THEN QNaN
      ELSE [a |-> s * (a \div g), b |-> s * (b \div g), d |-> s * (d \div g)]

QInt(n) == Q(n, 0, 1)

QAdd(x, y) ==
  IF IsNaN(x) \/ IsNaN(y) THEN QNaN
  ELSE LET g == Gcd(x.d, y.d)
           kx == y.d \div g
           ky == x.d \div g
       IN  Q(x.a * kx + y.a * ky, x.b * kx + y.b * ky, x.d * kx)

QNeg(x) == IF IsNaN(x) THEN QNaN ELSE [a |-> 0 - x.a, b |-> 0 - x.b, d |-> x.d]

QSub(x, y) == QAdd(x, QNeg(y))

QMul(x, y) ==
  IF IsNaN(x) \/ IsNaN(y) THEN QNaN
  ELSE Q(x.a * y.a + 3 * x.b * y.b, x.a * y.b + x.b * y.a, x.d * y.d)

\* x / y for a rational y (b = 0), y # 0.
QDivRat(x, y) ==
  IF IsNaN(x) \/ IsNaN(y) THEN QNaN
  ELSE Q(x.a * y.d, x.b * y.d, x.d * y.a)

\* -1, 0 or 1: the sign of a + b*sqrt 3 (x is not NaN).
QSign(x) ==
  LET a == x.a
      b == x.b
  IN  IF a = 0 /\ b = 0 THEN 0
      ELSE IF a >= 0 /\ b >= 0 THEN 1
      ELSE IF a <= 0 /\ b <= 0 THEN 0 - 1
      ELSE IF a > 0 THEN (IF a * a > 3 * b * b THEN 1 ELSE 0 - 1)
      ELSE (IF 3 * b * b > a * a THEN 1 ELSE 0 - 1)

QLeq(x, y) == QSign(QSub(y, x)) >= 0

RECURSIVE ISqrtIn(_, _, _)
ISqrtIn(n, lo, hi) ==
  IF lo >= hi THEN lo
  ELSE LET mid == (lo + hi + 1) \div 2
       IN  IF mid * mid <= n THEN ISqrtIn(n, mid, hi) ELSE ISqrtIn(n, lo, mid - 1)

ISqrt(n) == ISqrtIn(n, 0, IF n < 40000 THEN n ELSE 40000)

IsSquare(n) == n >= 0 /\ ISqrt(n) * ISqrt(n) = n

\* Whether sqrt(x) is rational, for a non-negative rational x.
HasRationalSqrt(x) == ~IsNaN(x) /\ x.b = 0 /\ IsSquare(x.a) /\ IsSquare(x.d)

QSqrt(x) == Q(ISqrt(x.a), 0, ISqrt(x.d))

(***************************************************************************)
(* Math.cos and Math.sin at whole degrees that are multiples of 30.        *)
(***************************************************************************)
CosTable ==
  <<Q(1, 0, 1), Q(0, 1, 2), Q(1, 0, 2), Q(0, 0, 1), Q(0 - 1, 0, 2), Q(0, 0 - 1, 2),
    Q(0 - 1, 0, 1), Q(0, 0 - 1, 2), Q(0 - 1, 0, 2), Q(0, 0, 1), Q(1, 0, 2), Q(0, 1, 2)>>

CosDeg(deg) == CosTable[((deg % 360) \div 30) + 1]

SinDeg(deg) == CosDeg(deg - 90)

\* Math.cos / Math.sin of an angle given as a number value in degrees
\* (the code's radians are deg * PI / 180); NaN in, NaN out.
MathCos(x) == IF x.t = "nan" THEN QNaN ELSE CosDeg(x.v)

MathSin(x) == IF x.t = "nan" THEN QNaN ELSE SinDeg(x.v)

\* n - x and x + n on number values, NaN propagating.
NumSubFrom(n, x) == IF x.t = "nan" THEN JsNaN ELSE Num(n - x.v)

NumAdd(x, n) == IF x.t = "nan" THEN JsNaN ELSE Num(x.v + n)

(***************************************************************************)
(* THREE.Vector3 as used by calculateOffsetPosition.                       *)
(***************************************************************************)
VDot(u, w) == QAdd(QAdd(QMul(u[1], w[1]), QMul(u[2], w[2])), QMul(u[3], w[3]))

VAdd(u, w) == <<QAdd(u[1], w[1]), QAdd(u[2], w[2]), QAdd(u[3], w[3])>>

VSub(u, w) == <<QSub(u[1], w[1]), QSub(u[2], w[2]), QSub(u[3], w[3])>>

VScale(u, k) == <<QMul(u[1], k), QMul(u[2], k), QMul(u[3], k)>>

VHasNaN(u) == IsNaN(u[1]) \/ IsNaN(u[2]) \/ IsNaN(u[3])

VLengthSq(u) == VDot(u, u)

\* A position handed to a marker: the array [x, y, z] is v when unit is
\* FALSE, and v / |v| when unit is TRUE (|v| is then irrational and the
\* quotient is kept symbolic).
Position(u, isUnit) == [v |-> u, unit |-> isUnit]

\* Vector3.normalize: divideScalar(length() || 1).  A NaN or zero length is
\* falsy, so the vector is divided by 1.
Normalize(u) ==
  LET lenSq == VLengthSq(u)
  IN  IF IsNaN(lenSq) \/ QSign(lenSq) = 0 THEN Position(u, FALSE)
      ELSE IF HasRationalSqrt(lenSq)
      THEN Position(<<QDivRat(u[1], QSqrt(lenSq)), QDivRat(u[2], QSqrt(lenSq)),
                      QDivRat(u[3], QSqrt(lenSq))>>, FALSE)
      ELSE Position(u, TRUE)

\* The default radius of latLonToVec3.
DefaultRadius == Q(1001, 0, 1000)

\* latLonToVec3(lat, lon, radius): lat and lon are number values in degrees.
latLonToVec3(lat, lon, radius) ==
  LET phi == NumSubFrom(90, lat)
      theta == NumAdd(lon, 180)
  IN  <<QMul(QMul(QNeg(radius), MathSin(phi)), MathCos(theta)),
        QMul(radius, MathCos(phi)),
        QMul(QMul(radius, MathSin(phi)), MathSin(theta))>>

\* const radius = 0.01
OffsetRadius == Q(1, 0, 100)

\* (index / total) * Math.PI * 2, in degrees.
OffsetAngle(index, total) == Num((360 * index) \div total)

calculateOffsetPosition(basePosition, index, total) ==
  IF total <= 1 THEN Position(basePosition, FALSE)
  ELSE LET angle == OffsetAngle(index, total)
           offsetX == QMul(MathCos(angle), OffsetRadius)
           offsetZ == QMul(MathSin(angle), OffsetRadius)
           pos == basePosition
           offset == <<offsetX, QInt(0), offsetZ>>
           normal == Normalize(pos).v
           tangent == VSub(offset, VScale(normal, VDot(offset, normal)))
       IN  Normalize(VAdd(pos, tangent))

(***************************************************************************)
(* AirportDots.                                                            *)
(***************************************************************************)
\* GroupStep without toUpperCase: the code is the airport field as written.
GroupStepAsWritten(groups, neighbor) ==
  IF ~Truthy(neighbor.airport) THEN groups
  ELSE LET code == neighbor.airport
       IN  IF \E i \in 1..Len(groups) : groups[i].code = code
           THEN [i \in 1..Len(groups) |->
                   IF groups[i].code = code
                   THEN [groups[i] EXCEPT !.members = Append(@, neighbor)]
                   ELSE groups[i]]
           ELSE Append(groups, [code |-> code, members |-> <<neighbor>>])

\* GroupStep with unshift in place of push: the newest member first.
GroupStepUnshift(groups, neighbor) ==
  IF ~Truthy(neighbor.airport) THEN groups
  ELSE LET code == ToUpperCase(neighbor.airport)
       IN  IF \E i \in 1..Len(groups) : groups[i].code = code
           THEN [i \in 1..Len(groups) |->
                   IF groups[i].code = code
                   THEN [groups[i] EXCEPT !.members = <<neighbor>> \o @]
                   ELSE groups[i]]
           ELSE Append(groups, [code |-> code, members |-> <<neighbor>>])

\* The reduce callback: groups is the object as the sequence of its
\* entries [code, members] in insertion order.
GroupStep(groups, neighbor) ==
  IF ~Truthy(neighbor.airport) THEN groups
  ELSE LET code == ToUpperCase(neighbor.airport)
       IN  IF \E i \in 1..Len(groups) : groups[i].code = code
           THEN [i \in 1..Len(groups) |->
                   IF groups[i].code = code
                   THEN [groups[i] EXCEPT !.members = Append(@, neighbor)]
                   ELSE groups[i]]
           ELSE Append(groups, [code |-> code, members |-> <<neighbor>>])

RECURSIVE Reduce(_, _)
Reduce(list, groups) ==
  IF list = <<>> THEN groups ELSE Reduce(Tail(list), GroupStep(groups, Head(list)))

airportGroups(neighbors) == Reduce(neighbors, <<>>)

\* The predicate of Object.values(airportsData).find.
AirportMatches(a, code) ==
  OptToUpperCase(a.iata) = code \/ OptToUpperCase(a.icao) = code

\* find: the index of the first matching record, 0 when there is none.
FindAirport(airportsData, code) ==
  IF \E i \in 1..Len(airportsData) : AirportMatches(airportsData[i], code)
  THEN CHOOSE i \in 1..Len(airportsData) :
         /\ AirportMatches(airportsData[i], code)
         /\ \A j \in 1..(i - 1) : ~AirportMatches(airportsData[j], code)
  ELSE 0

\* if (!airport || !airport.lat || !airport.lon) return null
GroupSkipped(airportsData, code) ==
  LET k == FindAirport(airportsData, code)
  IN  k = 0 \/ ~Truthy(airportsData[k].lat) \/ ~Truthy(airportsData[k].lon)

\* `${x}` on a string, null or undefined value.
TemplateString(x) ==
  CASE x.t = "str" -> x.v
    [] x.t = "null" -> <<"n", "u", "l", "l">>
    [] x.t = "undefined" -> <<"u", "n", "d", "e", "f", "i", "n", "e", "d">>

\* x >= n for a value x and an integer n (NaN compares false).
AtLeast(x, n) == LET m == ToNumber(x) IN m.t = "num" /\ m.v >= n

\* DotColor with the hours test ahead of the approval test.
DotColorHoursFirst(neighbor) ==
  IF AtLeast(neighbor.totalTimeHackatimeHours, 100) THEN "#ffff00"
  ELSE IF Truthy(neighbor.approvedFlightStipend) THEN "#00ff00"
  ELSE "red"

\* The color prop of a neighbor's BlinkingDot.
DotColor(neighbor) ==
  IF Truthy(neighbor.approvedFlightStipend) THEN "#00ff00"
  ELSE IF AtLeast(neighbor.totalTimeHackatimeHours, 100) THEN "#ffff00"
  ELSE "red"

\* BlinkingDot's baseSize for its color prop.
BaseSize(color) ==
  IF color = "red" THEN Q(75, 0, 10000)
  ELSE IF color = "#ffff00" THEN Q(105, 0, 10000)
  ELSE Q(15, 0, 1000)

\* The BlinkingDot element of the index-th (from 0) neighbor of a group.
\* onClick is the path segment router.push is given after /neighborhood/.
BlinkingDotElement(neighbor, index, total, basePosition) ==
  [key |-> neighbor.slackId,
   position |-> calculateOffsetPosition(basePosition, index, total),
   onClick |-> TemplateString(neighbor.slackId),
   interactive |-> TRUE,
   color |-> DotColor(neighbor)]

\* The map callback over Object.entries(airportGroups): <<>> stands for null.
GroupDots(group, airportsData) ==
  IF GroupSkipped(airportsData, group.code) THEN <<>>
  ELSE LET airport == airportsData[FindAirport(airportsData, group.code)]
           basePosition ==
             latLonToVec3(ToNumber(airport.lat), ToNumber(airport.lon), DefaultRadius)
       IN  [i \in 1..Len(group.members) |->
              BlinkingDotElement(group.members[i], i - 1, Len(group.members),
                                 basePosition)]

RECURSIVE Flat(_)
Flat(lists) == IF lists = <<>> THEN <<>> ELSE Head(lists) \o Flat(Tail(lists))

\* The elements AirportDots returns: .map(...).flat().filter(Boolean).
AirportDots(neighbors, airportsData) ==
  LET groups == airportGroups(neighbors)
  IN  Flat([g \in 1..Len(groups) |-> GroupDots(groups[g], airportsData)])

(***************************************************************************)
(* State.                                                                  *)
(***************************************************************************)
VARIABLES
  neighbors,      \* GlobePage state / AirportDots prop: the person list
  airportsData,   \* GlobePage state / AirportDots prop: Object.values of the table
  rendered,       \* whether AirportDots is rendered (the Canvas branch)
  dots,           \* the BlinkingDot elements AirportDots returned
  mounted,        \* GlobePage: "no", "yes" (effects have run), "gone" (unmounted)
  loading,        \* GlobePage state
  loadingStep,    \* GlobePage state
  neighborsFetch, \* the promise chain of the first effect: [pc, data]
  airportsFetch,  \* the promise chain of the second effect: [pc, data]
  timers,         \* the interval timers registered with setInterval
  timerIds,       \* how many ids setInterval has handed out
  interval,       \* the id the third effect's cleanup closes over, 0 for none
  clock,          \* BlinkingDot frames: THREE.Clock's elapsed time, in ticks
  frame,          \* BlinkingDot frames: the dot whose useFrame callback runs next
  meshScale,      \* BlinkingDot frames: meshRef.current.scale of every dot
  request,        \* API handler: the request's method
  store,          \* API handler: what the data store will answer
  handlerPc,      \* API handler: "idle" (no request), "start", "awaiting", "done"
  queries,        \* API handler: the number of queries sent to the store
  responses       \* API handler: the responses sent, in order

dotsVars == <<neighbors, airportsData, rendered, dots>>

pageVars == <<mounted, loading, loadingStep, neighborsFetch, airportsFetch, timers,
              timerIds, interval>>

frameVars == <<clock, frame, meshScale>>

apiVars == <<request, store, handlerPc, queries, responses>>

vars == <<dotsVars, pageVars, frameVars, apiVars>>

\* A response body without a neighbors list.
EmptyBody == [hasNeighbors |-> FALSE, neighbors |-> <<>>]

NoFetch == [pc |-> "idle", data |-> <<>>]

\* The state of each part before it has started.
PageUnused ==
  /\ mounted = "no" /\ loading = TRUE /\ loadingStep = 0
  /\ neighborsFetch = [pc |-> "idle", data |-> EmptyBody] /\ airportsFetch = NoFetch
  /\ timers = {} /\ timerIds = 0 /\ interval = 0

FramesUnused == clock = 0 /\ frame = 1 /\ meshScale = <<>>

ApiUnused ==
  /\ request = "GET" /\ store = [throws |-> FALSE, records |-> <<>>]
  /\ handlerPc = "idle" /\ queries = 0 /\ responses = <<>>

(***************************************************************************)
(* Inputs of AirportDots.                                                  *)
(***************************************************************************)
MaxNeighbors == 3

MaxGroup == 4

RECURSIVE DecimalDigits(_)
DecimalDigits(n) ==
  IF n < 10 THEN <<Digits[n + 1]>> ELSE Append(DecimalDigits(n \div 10), Digits[(n % 10) + 1])

\* The decimal string of an integer, as the JSON of the table would hold it.
DecimalString(n) == IF n < 0 THEN <<"-">> \o DecimalDigits(0 - n) ELSE DecimalDigits(n)

SlackId(i) == Str(<<"U">> \o DecimalDigits(i))

Neighbor(i, airport, approved, hours) ==
  [slackId |-> SlackId(i), airport |-> airport, approvedFlightStipend |-> approved,
   totalTimeHackatimeHours |-> hours]

Airport(iata, icao, lat, lon) == [iata |-> iata, icao |-> icao, lat |-> lat, lon |-> lon]

SFO == Str(<<"S", "F", "O">>)

KSFO == Str(<<"K", "S", "F", "O">>)

XYZ == Str(<<"X", "Y", "Z">>)

\* The airport codes a neighbor may carry: null, empty, two spellings of one
\* code, and another code.
NeighborAirports == {Null, Str(<<>>), Str(<<"s", "f", "o">>), SFO, Str(<<"x", "y", "z">>)}

\* approvedFlightStipend and totalTimeHackatimeHours of a neighbor.
Profiles ==
  {<<Bool(TRUE), Num(5)>>, <<Undefined, Num(120)>>, <<Bool(FALSE), Num(10)>>}

\* Records of the airport table: well-formed, lower-case codes with numeric
\* coordinates, a zero latitude, a malformed latitude, missing coordinates,
\* a malformed longitude and an equator airport given in strings.
AirportRecords ==
  <<Airport(SFO, KSFO, Str(<<"3", "0">>), Str(<<"-", "1", "2", "0">>)),
    Airport(Str(<<"s", "f", "o">>), Undefined, Num(60), Num(90)),
    Airport(Str(<<>>), XYZ, Num(0), Num(30)),
    Airport(Undefined, Str(<<"x", "y", "z">>), Str(<<"a", "b", "c">>), Str(<<"6", "0">>)),
    Airport(SFO, KSFO, Undefined, Undefined),
    Airport(XYZ, Undefined, Str(<<"0">>), Str(<<"9", "0", "E">>))>>

\* The tables: empty, one record, or one of a few pairs of records.
AirportTables ==
  {<<>>} \cup {<<AirportRecords[i]>> : i \in 1..Len(AirportRecords)}
         \cup {<<AirportRecords[p[1]], AirportRecords[p[2]]>> :
                 p \in {<<1, 3>>, <<5, 1>>, <<2, 6>>, <<4, 1>>, <<3, 6>>, <<1, 5>>}}

\* Person lists of a given length: the i-th person has Slack id U<i>.
RECURSIVE NeighborLists(_, _, _)
NeighborLists(n, airports, profiles) ==
  IF n = 0 THEN {<<>>}
  ELSE {Append(l, Neighbor(n, a, p[1], p[2])) :
          l \in NeighborLists(n - 1, airports, profiles), a \in airports, p \in profiles}

\* Group sizes whose offset angles are multiples of 30 degrees.
GroupSizes == {n \in 1..MaxGroup : 12 % n = 0}

Latitudes == {30 * k : k \in (0 - 3)..3}

Longitudes == {30 * k : k \in (0 - 6)..6}

\* Join inputs: any list of up to MaxNeighbors neighbors against any table.
JoinInputs ==
  /\ \E n \in 0..MaxNeighbors :
       neighbors \in NeighborLists(n, NeighborAirports,
                                  {<<Bool(TRUE), Num(5)>>, <<Undefined, Num(120)>>})
  /\ airportsData \in AirportTables

\* Inputs with the airport field missing from some neighbors.
MissingCodeInputs ==
  /\ \E n \in 1..2 :
       neighbors \in NeighborLists(n, {Undefined, Str(<<"s", "f", "o">>)},
                                  {<<Undefined, Num(120)>>})
  /\ airportsData \in AirportTables

\* Classification inputs: one neighbor at a known airport, any flags.
ClassifyInputs ==
  /\ \E approved \in {Undefined, Null, Bool(FALSE), Bool(TRUE)} :
     \E hours \in {Undefined, Null, Num(0), Num(99), Num(100), Num(101), Num(150)} :
       neighbors = <<Neighbor(1, SFO, approved, hours)>>
  /\ airportsData = <<AirportRecords[1]>>

\* Layout inputs: a whole group at one airport anywhere on the 30-degree grid.
LayoutInputs ==
  \E n \in GroupSizes : \E lat \in Latitudes : \E lon \in Longitudes :
    /\ neighbors \in NeighborLists(n, {SFO}, {<<Undefined, Num(120)>>})
    /\ airportsData = <<Airport(SFO, KSFO, Str(DecimalString(lat)), Str(DecimalString(lon)))>>

InitDots ==
  /\ JoinInputs \/ MissingCodeInputs \/ ClassifyInputs \/ LayoutInputs
  /\ rendered = FALSE /\ dots = <<>>
  /\ PageUnused /\ FramesUnused /\ ApiUnused

\* One render of <AirportDots neighbors={neighbors} airportsData={airportsData} />.
RenderDots ==
  /\ ~rendered
  /\ rendered' = TRUE
  /\ dots' = AirportDots(neighbors, airportsData)
  /\ UNCHANGED <<neighbors, airportsData, pageVars, frameVars, apiVars>>

NextDots == RenderDots

SpecDots == InitDots /\ [][NextDots]_vars

(***************************************************************************)
(* What the claims about AirportDots are stated with.                      *)
(***************************************************************************)
\* The squared distance of a position from the origin.
NormSq(p) == IF p.unit THEN QInt(1) ELSE VLengthSq(p.v)

VCross(u, w) ==
  <<QSub(QMul(u[2], w[3]), QMul(u[3], w[2])),
    QSub(QMul(u[3], w[1]), QMul(u[1], w[3])),
    QSub(QMul(u[1], w[2]), QMul(u[2], w[1]))>>

VIsZero(u) == \A k \in 1..3 : QSign(u[k]) = 0

\* u and w are positive multiples of one another (or both zero).
SameDirection(u, w) ==
  /\ VIsZero(VCross(u, w))
  /\ \A k \in 1..3 : QSign(u[k]) = QSign(w[k])

\* Two positions without NaN are the same point of space.
SamePosition(p, q) ==
  /\ SameDirection(p.v, q.v)
  /\ NormSq(p) = NormSq(q)

PositionHasNaN(p) == VHasNaN(p.v)

\* The neighbors whose code is c once uppercased, in the list's order.
MembersOf(c) ==
  SelectSeq(neighbors, LAMBDA n : n.airport.t = "str" /\ ToUpperCase(n.airport) = c)

\* The rendered dots that belong to the neighbors of `members`, in render order.
DotsOf(members) ==
  SelectSeq(dots, LAMBDA m : \E i \in 1..Len(members) : members[i].slackId = m.key)

HasDot(n) == \E k \in 1..Len(dots) : dots[k].key = n.slackId

DotOf(n) == dots[CHOOSE k \in 1..Len(dots) : dots[k].key = n.slackId]

\* Record r of the table carries code c in its IATA or ICAO field, compared
\* exactly / compared after uppercasing the field.
CarriesExactly(r, c) == r.iata = c \/ r.icao = c

CarriesIgnoringCase(r, c) ==
  \/ r.iata.t = "str" /\ ToUpperCase(r.iata) = c
  \/ r.icao.t = "str" /\ ToUpperCase(r.icao) = c

\* The first record of the table that carries c ignoring case has usable
\* (truthy) coordinates.
FirstCarrierHasCoordinates(c) ==
  \E k \in 1..Len(airportsData) :
    /\ CarriesIgnoringCase(airportsData[k], c)
    /\ \A j \in 1..(k - 1) : ~CarriesIgnoringCase(airportsData[j], c)
    /\ Truthy(airportsData[k].lat) /\ Truthy(airportsData[k].lon)

\* The base position of the first record that carries c ignoring case.
BaseOfCode(c) ==
  LET k == CHOOSE k \in 1..Len(airportsData) :
             /\ CarriesIgnoringCase(airportsData[k], c)
             /\ \A j \in 1..(k - 1) : ~CarriesIgnoringCase(airportsData[j], c)
  IN  latLonToVec3(ToNumber(airportsData[k].lat), ToNumber(airportsData[k].lon),
                   DefaultRadius)

\* C1 as stated: a neighbor has a marker if and only if its code is present
\* (not null, not missing) and, uppercased, equals the IATA or ICAO code of
\* some record of the table.
C1_MarkerIffCodeMatchesSomeRecord ==
  rendered =>
    \A i \in 1..Len(neighbors) :
      HasDot(neighbors[i]) <=>
        /\ neighbors[i].airport.t = "str"
        /\ \E k \in 1..Len(airportsData) :
             CarriesExactly(airportsData[k], ToUpperCase(neighbors[i].airport))

\* C1 amended: a neighbor has a marker if and only if its code is a
\* non-empty string and the first record whose IATA or ICAO code, uppercased,
\* equals the uppercased code has a non-empty, non-zero lat and lon; and the
\* neighbors whose codes differ only in letter case form one group: they are
\* rendered together, each laid out by its rank among all of them.
C1_MarkerIffFirstMatchUsable ==
  rendered =>
    \A i \in 1..Len(neighbors) :
      LET n == neighbors[i]
      IN  /\ HasDot(n) <=>
               /\ n.airport.t = "str" /\ n.airport.v # <<>>
               /\ FirstCarrierHasCoordinates(ToUpperCase(n.airport))
          /\ HasDot(n) =>
               LET group == MembersOf(ToUpperCase(n.airport))
                   rank == CHOOSE r \in 1..Len(group) : group[r].slackId = n.slackId
               IN  /\ Len(DotsOf(group)) = Len(group)
                   /\ DotOf(n).position =
                        calculateOffsetPosition(BaseOfCode(ToUpperCase(n.airport)),
                                                rank - 1, Len(group))

\* C1 witness: a lower-case code and an upper-case code share a rendered
\* group while a third neighbor, with a null code or a code no record
\* carries, has no marker.
C1_Witness ==
  /\ rendered
  /\ \E i, j, k \in 1..Len(neighbors) :
       /\ neighbors[i].airport = Str(<<"s", "f", "o">>) /\ HasDot(neighbors[i])
       /\ neighbors[j].airport = SFO /\ HasDot(neighbors[j])
       /\ ~HasDot(neighbors[k])
       /\ \/ neighbors[k].airport = Null
          \/ /\ neighbors[k].airport = Str(<<"x", "y", "z">>)
             /\ \A r \in 1..Len(airportsData) : ~CarriesIgnoringCase(airportsData[r], XYZ)

\* The reference size S = 0.015.
ReferenceSize == Q(15, 0, 1000)

\* The class the policy gives a neighbor: 1 approved, 2 hours >= 100, 3 else.
PolicyClass(n) ==
  IF n.approvedFlightStipend = Bool(TRUE) THEN 1
  ELSE IF n.totalTimeHackatimeHours.t = "num" /\ n.totalTimeHackatimeHours.v >= 100
  THEN 2
  ELSE 3

PolicyColor(n) == <<"#00ff00", "#ffff00", "red">>[PolicyClass(n)]

PolicySize(n) ==
  <<ReferenceSize, QMul(Q(7, 0, 10), ReferenceSize),
    QMul(Q(5, 0, 10), ReferenceSize)>>[PolicyClass(n)]

\* C2: every marker is green with base size S when its neighbor is approved
\* (whatever the hours), else yellow with 0.7*S when the hours are >= 100,
\* else (unset flag or hours included) red with 0.5*S.
C2_ClassificationByPriority ==
  rendered =>
    \A i \in 1..Len(neighbors) :
      HasDot(neighbors[i]) =>
        /\ DotOf(neighbors[i]).color = PolicyColor(neighbors[i])
        /\ BaseSize(DotOf(neighbors[i]).color) = PolicySize(neighbors[i])

\* C2 witness: an approved neighbor with 150 hours (both rules apply) is
\* rendered, green.
C2_Witness ==
  /\ rendered
  /\ \E i \in 1..Len(neighbors) :
       /\ neighbors[i].approvedFlightStipend = Bool(TRUE)
       /\ neighbors[i].totalTimeHackatimeHours = Num(150)
       /\ HasDot(neighbors[i]) /\ DotOf(neighbors[i]).color = "#00ff00"

\* Dots k and l belong to neighbors of one airport group.
SameGroup(k, l) ==
  \E i, j \in 1..Len(neighbors) :
    /\ neighbors[i].slackId = dots[k].key /\ neighbors[j].slackId = dots[l].key
    /\ ToUpperCase(neighbors[i].airport) = ToUpperCase(neighbors[j].airport)

C4_OnSphereOfBasePosition ==
  rendered =>
    \A k \in 1..Len(dots) :
      ~PositionHasNaN(dots[k].position)
        => NormSq(dots[k].position) = QMul(DefaultRadius, DefaultRadius)

\* C5: no marker with a NaN position is rendered (a malformed latitude or
\* longitude is an error of the join, not a marker).
C5_NoNaNPositionRendered ==
  rendered => \A k \in 1..Len(dots) : ~PositionHasNaN(dots[k].position)

\* C6: the markers of every rendered group are one per member, in the order
\* of the members in the person list, the i-th with the colour and the
\* navigation target of the i-th member.
C6_OneMarkerPerMemberInOrder ==
  rendered =>
    \A j \in 1..Len(neighbors) :
      neighbors[j].airport.t = "str" =>
        LET members == MembersOf(ToUpperCase(neighbors[j].airport))
            ds == DotsOf(members)
        IN  \/ ds = <<>>
            \/ /\ Len(ds) = Len(members)
               /\ \A i \in 1..Len(members) :
                    /\ ds[i].key = members[i].slackId
                    /\ ds[i].onClick = members[i].slackId.v
                    /\ ds[i].color = PolicyColor(members[i])

\* C6 witness: a rendered group whose two members are first and third in the
\* person list, with different colours, around a rendered neighbor of
\* another group.
C6_Witness ==
  /\ rendered /\ Len(neighbors) = 3 /\ Len(dots) = 3
  /\ ToUpperCase(neighbors[1].airport) = ToUpperCase(neighbors[3].airport)
  /\ ToUpperCase(neighbors[2].airport) # ToUpperCase(neighbors[1].airport)
  /\ PolicyColor(neighbors[1]) # PolicyColor(neighbors[3])

(***************************************************************************)
(* GlobePage: the two fetches, the loading flag and the loading timer.     *)
(* A handler that sets state is modelled with the re-render and the effect *)
(* runs that the new state causes.                                         *)
(***************************************************************************)
\* What the JSX renders of AirportDots: the Canvas branch is taken only
\* when loading is false.
CanvasDotsUngated(isLoading, people, table) == AirportDots(people, table)

CanvasDots(isLoading, people, table) ==
  IF isLoading THEN <<>> ELSE AirportDots(people, table)

\* The third effect without its cleanup: no clearInterval.
LoadingEffectNoCleanup(isLoading, registered, ids, current) ==
  IF ~isLoading THEN [timers |-> registered, timerIds |-> ids, interval |-> 0]
  ELSE [timers |-> registered \cup {ids + 1}, timerIds |-> ids + 1, interval |-> ids + 1]

\* The third effect on a change of `loading` (or on mount): the cleanup of
\* the previous run clears its interval, then `if (!loading) return`, else
\* setInterval hands out a fresh id.
LoadingEffect(isLoading, registered, ids, current) ==
  LET cleared == registered \ {current}
  IN  IF ~isLoading THEN [timers |-> cleared, timerIds |-> ids, interval |-> 0]
      ELSE [timers |-> cleared \cup {ids + 1}, timerIds |-> ids + 1,
            interval |-> ids + 1]

\* data.neighbors || [] on a response body [hasNeighbors, neighbors].
NeighborsOf(data) == IF data.hasNeighbors THEN data.neighbors ELSE <<>>

\* Neighbors as the API serves them: no approvedFlightStipend field.
ServedNeighbor(i, airport, hours) == Neighbor(i, airport, Undefined, Num(hours))

\* Bodies of /api/getNeighborsSecurely: an error body without a list, an
\* empty list, and lists with one group, mixed case and unmatched codes.
NeighborBodies ==
  {EmptyBody,
   [hasNeighbors |-> TRUE, neighbors |-> <<>>],
   [hasNeighbors |-> TRUE, neighbors |-> <<ServedNeighbor(1, SFO, 120)>>],
   [hasNeighbors |-> TRUE,
    neighbors |-> <<ServedNeighbor(1, Str(<<"s", "f", "o">>), 120),
                    ServedNeighbor(2, Undefined, 40), ServedNeighbor(3, SFO, 7)>>],
   [hasNeighbors |-> TRUE,
    neighbors |-> <<ServedNeighbor(1, XYZ, 3), ServedNeighbor(2, SFO, 100)>>]}

\* Bodies of /airports.json.
AirportBodies ==
  {<<>>, <<AirportRecords[1]>>, <<AirportRecords[3], AirportRecords[1]>>,
   <<AirportRecords[2], AirportRecords[6]>>}

\* A promise callback of the page is queued as a microtask: it runs before
\* any further task (a response, a timer, a navigation away).
MicrotaskQueued ==
  \/ neighborsFetch.pc \in {"fulfilled", "stored", "rejected"}
  \/ airportsFetch.pc = "fulfilled"

InitPage ==
  /\ neighbors = <<>> /\ airportsData = <<>>
  /\ rendered = FALSE /\ dots = <<>>
  /\ PageUnused /\ FramesUnused /\ ApiUnused

\* The three effects, after the first commit.
MountEffects ==
  /\ mounted = "no"
  /\ mounted' = "yes"
  /\ loading' = TRUE
  /\ neighborsFetch' = [pc |-> "pending", data |-> EmptyBody]
  /\ airportsFetch' = [pc |-> "pending", data |-> <<>>]
  /\ LET e == LoadingEffect(TRUE, timers, timerIds, interval)
     IN  timers' = e.timers /\ timerIds' = e.timerIds /\ interval' = e.interval
  /\ UNCHANGED <<neighbors, airportsData, rendered, dots, loadingStep, frameVars, apiVars>>

\* fetch resolves and res.json() yields the body.
NeighborsArrive ==
  /\ ~MicrotaskQueued
  /\ neighborsFetch.pc = "pending"
  /\ \E body \in NeighborBodies : neighborsFetch' = [pc |-> "fulfilled", data |-> body]
  /\ UNCHANGED <<dotsVars, mounted, loading, loadingStep, airportsFetch, timers,
                 timerIds, interval, frameVars, apiVars>>

\* fetch or res.json() rejects.
NeighborsFail ==
  /\ ~MicrotaskQueued
  /\ neighborsFetch.pc = "pending"
  /\ neighborsFetch' = [pc |-> "rejected", data |-> EmptyBody]
  /\ UNCHANGED <<dotsVars, mounted, loading, loadingStep, airportsFetch, timers,
                 timerIds, interval, frameVars, apiVars>>

\* .then((data) => setNeighbors(data.neighbors || []))
NeighborsThen ==
  /\ neighborsFetch.pc = "fulfilled"
  /\ neighborsFetch' = [neighborsFetch EXCEPT !.pc = "stored"]
  /\ IF mounted = "yes"
     THEN /\ neighbors' = NeighborsOf(neighborsFetch.data)
          /\ dots' = CanvasDots(loading, neighbors', airportsData)
     ELSE UNCHANGED <<neighbors, dots>>
  /\ UNCHANGED <<airportsData, rendered, mounted, loading, loadingStep, airportsFetch,
                 timers, timerIds, interval, frameVars, apiVars>>

\* .finally(() => setLoading(false)), and the third effect's re-run.
NeighborsFinally ==
  /\ neighborsFetch.pc \in {"stored", "rejected"}
  /\ neighborsFetch' = [neighborsFetch EXCEPT !.pc = "settled"]
  /\ IF mounted = "yes"
     THEN /\ loading' = FALSE
          /\ rendered' = TRUE
          /\ dots' = CanvasDots(FALSE, neighbors, airportsData)
          /\ LET e == LoadingEffect(FALSE, timers, timerIds, interval)
             IN  IF loading
                 THEN timers' = e.timers /\ timerIds' = e.timerIds
                      /\ interval' = e.interval
                 ELSE UNCHANGED <<timers, timerIds, interval>>
     ELSE UNCHANGED <<loading, rendered, dots, timers, timerIds, interval>>
  /\ UNCHANGED <<neighbors, airportsData, mounted, loadingStep, airportsFetch,
                 frameVars, apiVars>>

AirportsArrive ==
  /\ ~MicrotaskQueued
  /\ airportsFetch.pc = "pending"
  /\ \E body \in AirportBodies : airportsFetch' = [pc |-> "fulfilled", data |-> body]
  /\ UNCHANGED <<dotsVars, mounted, loading, loadingStep, neighborsFetch, timers,
                 timerIds, interval, frameVars, apiVars>>

AirportsFail ==
  /\ ~MicrotaskQueued
  /\ airportsFetch.pc = "pending"
  /\ airportsFetch' = [pc |-> "rejected", data |-> <<>>]
  /\ UNCHANGED <<dotsVars, mounted, loading, loadingStep, neighborsFetch, timers,
                 timerIds, interval, frameVars, apiVars>>

\* .then((data) => setAirportsData(data))
AirportsThen ==
  /\ airportsFetch.pc = "fulfilled"
  /\ airportsFetch' = [airportsFetch EXCEPT !.pc = "stored"]
  /\ IF mounted = "yes"
     THEN /\ airportsData' = airportsFetch.data
          /\ dots' = CanvasDots(loading, neighbors, airportsData')
     ELSE UNCHANGED <<airportsData, dots>>
  /\ UNCHANGED <<neighbors, rendered, mounted, loading, loadingStep, neighborsFetch,
                 timers, timerIds, interval, frameVars, apiVars>>

\* The interval callback: setLoadingStep((prev) => (prev + 1) % 4).
Tick ==
  /\ ~MicrotaskQueued
  /\ \E id \in timers : TRUE
  /\ loadingStep' = IF mounted = "yes" THEN (loadingStep + 1) % 4 ELSE loadingStep
  /\ UNCHANGED <<dotsVars, mounted, loading, neighborsFetch, airportsFetch, timers,
                 timerIds, interval, frameVars, apiVars>>

\* The page is left: the third effect's cleanup runs, nothing is rendered.
Unmount ==
  /\ ~MicrotaskQueued
  /\ mounted = "yes"
  /\ mounted' = "gone"
  /\ timers' = timers \ {interval}
  /\ interval' = 0
  /\ rendered' = FALSE /\ dots' = <<>>
  /\ UNCHANGED <<neighbors, airportsData, loading, loadingStep, neighborsFetch,
                 airportsFetch, timerIds, frameVars, apiVars>>

Next ==
  \/ MountEffects
  \/ NeighborsArrive
  \/ NeighborsFail
  \/ NeighborsThen
  \/ NeighborsFinally
  \/ AirportsArrive
  \/ AirportsFail
  \/ AirportsThen
  \/ Tick
  \/ Unmount

Spec == InitPage /\ [][Next]_vars

C9_AtMostOneLoadingTimer ==
  /\ Cardinality(timers) <= 1
  /\ timers # {} => loading /\ mounted = "yes"
  /\ (mounted = "yes" /\ neighborsFetch.pc = "settled") => ~loading
  /\ loadingStep \in 0..3

\* C9 witness: the timer has ticked three times and has been cleared when
\* the neighbors fetch settled.
C9_Witness ==
  /\ mounted = "yes" /\ neighborsFetch.pc = "settled"
  /\ timerIds = 1 /\ timers = {} /\ loadingStep = 3

(***************************************************************************)
(* BlinkingDot's useFrame callbacks.  Every frame the renderer calls the   *)
(* callback of each mounted dot in turn.  Time is counted in ticks of      *)
(* PI/12 seconds, so that t * 2 is a multiple of 30 degrees.               *)
(***************************************************************************)
MaxClock == 6

QAbs(x) == IF QSign(x) < 0 THEN QNeg(x) ELSE x

\* Math.abs(Math.sin(t * 2)) for t in ticks.
BlinkScale(t) == QAbs(MathSin(Num(t * 2 * 15)))

\* scale.set(scale * baseSize, scale * baseSize, scale * baseSize)
ScaleSet(scale, baseSize) ==
  <<QMul(scale, baseSize), QMul(scale, baseSize), QMul(scale, baseSize)>>

InitFrames ==
  /\ \E n \in 2..3 : neighbors \in NeighborLists(n, {SFO}, Profiles)
  /\ airportsData = <<AirportRecords[1]>>
  /\ rendered = TRUE
  /\ dots = AirportDots(neighbors, airportsData)
  /\ clock = 0 /\ frame = 1
  /\ meshScale = [k \in 1..Len(dots) |-> <<QInt(1), QInt(1), QInt(1)>>]
  /\ PageUnused /\ ApiUnused

\* The useFrame callback of dot `frame`.  clock.getElapsedTime() reads the
\* wall clock again at every call (THREE.Clock.getElapsedTime calls
\* getDelta), so the time it returns may have advanced since the previous
\* callback's read.
UseFrame ==
  /\ frame <= Len(dots)
  /\ \E advance \in 0..1 :
       /\ clock + advance <= MaxClock
       /\ clock' = clock + advance
  /\ meshScale' = [meshScale EXCEPT
                     ![frame] = ScaleSet(BlinkScale(clock'), BaseSize(dots[frame].color))]
  /\ frame' = frame + 1
  /\ UNCHANGED <<dotsVars, pageVars, apiVars>>

\* All callbacks of the frame have run; the next frame starts.
EndFrame ==
  /\ frame = Len(dots) + 1
  /\ frame' = 1
  /\ UNCHANGED <<dotsVars, pageVars, clock, meshScale, apiVars>>

NextFrames == UseFrame \/ EndFrame

SpecFrames == InitFrames /\ [][NextFrames]_vars

\* C7: when the callbacks of a frame have run, every dot's scale is, on all
\* three axes, m times its base size for one multiplier m in [0, 1] that is
\* the same for all dots; so two dots of one colour have equal scale.
C7_LockstepScale ==
  frame = Len(dots) + 1 =>
    /\ \E t \in 0..MaxClock :
         /\ QLeq(QInt(0), BlinkScale(t)) /\ QLeq(BlinkScale(t), QInt(1))
         /\ \A k \in 1..Len(dots) :
              meshScale[k] = ScaleSet(BlinkScale(t), BaseSize(dots[k].color))
    /\ \A k, l \in 1..Len(dots) :
         dots[k].color = dots[l].color => meshScale[k] = meshScale[l]

(***************************************************************************)
(* The neighbors API handler.                                              *)
(***************************************************************************)
MaxRecords == 2

\* Math.round: the nearest integer, halves towards plus infinity.
MathRound(x) == IF x.t = "tenths" THEN Num((x.v + 5) \div 10) ELSE x

\* x?.[0]?.url
FirstUrl(x) ==
  IF x.t \in {"undefined", "null"} THEN Undefined
  ELSE IF x.t # "arr" \/ x.v = <<>> THEN Undefined
  ELSE IF x.v[1].t \in {"undefined", "null"} THEN Undefined
  ELSE x.v[1].v.url

\* The map callback: one neighbor of the response per record.
toNeighbor(record) ==
  [id |-> record.id,
   pfp |-> Or(FirstUrl(record.fields["Pfp (from slackNeighbor)"]), Null),
   slackId |-> Or(record.fields["Slack ID (from slackNeighbor)"], Null),
   slackFullName |-> Or(record.fields["Full Name (from slackNeighbor)"], Null),
   githubUsername |-> Or(record.fields["githubUsername"], Null),
   totalTimeCombinedHours |-> Or(record.fields["totalTimeCombinedHours"], Num(0)),
   totalTimeHackatimeHours |->
     MathRound(Or(record.fields["totalTimeHackatimeHours"], Num(0))),
   totalTimeStopwatchHours |-> Or(record.fields["totalTimeStopwatchHours"], Num(0)),
   fullName |-> Or(record.fields["Full Name"], Null),
   totalCheckedTime |-> Or(record.fields["totalCheckedTime"], Num(0)),
   airport |-> record.fields["airport"]]

\* The fields of a record, in the order of the select's field list.
Fields(pfp, slackId, slackName, github, combined, hacka, stopw, checked, name, ap) ==
  ("Pfp (from slackNeighbor)" :> pfp) @@ ("Slack ID (from slackNeighbor)" :> slackId)
  @@ ("Full Name (from slackNeighbor)" :> slackName) @@ ("githubUsername" :> github)
  @@ ("totalTimeCombinedHours" :> combined) @@ ("totalTimeHackatimeHours" :> hacka)
  @@ ("totalTimeStopwatchHours" :> stopw) @@ ("totalCheckedTime" :> checked)
  @@ ("Full Name" :> name) @@ ("airport" :> ap)

\* Records of the Neighbors table: a full one, a sparse one, and one with an
\* empty attachment list and a zero field.
StoreRecords ==
  <<[id |-> Str(<<"r", "1">>),
     fields |-> Fields(Arr(<<Obj([url |-> Str(<<"u", "1">>)])>>), Arr(<<SlackId(1)>>),
                       Arr(<<Str(<<"A">>)>>), Str(<<"a">>), Tenths(1305),
                       Tenths(1205), Num(10), Tenths(997), Str(<<"A">>), SFO)],
    [id |-> Str(<<"r", "2">>),
     fields |-> Fields(Undefined, Undefined, Undefined, Undefined, Undefined,
                       Tenths(14), Undefined, Undefined, Undefined, Undefined)],
    [id |-> Str(<<"r", "3">>),
     fields |-> Fields(Arr(<<>>), Arr(<<SlackId(3)>>), Undefined, Str(<<>>), Num(0),
                       Tenths(25), Num(0), Num(0), Str(<<"C">>),
                       Str(<<"x", "y", "z">>))]>>

RECURSIVE RecordLists(_)
RecordLists(n) ==
  IF n = 0 THEN {<<>>}
  ELSE {Append(l, StoreRecords[i]) : l \in RecordLists(n - 1), i \in 1..Len(StoreRecords)}

Methods == {"GET", "POST", "PUT", "DELETE", "HEAD"}

InitApi ==
  /\ request \in Methods
  /\ \/ store = [throws |-> TRUE, records |-> <<>>]
     \/ \E n \in 0..MaxRecords : \E l \in RecordLists(n) :
          store = [throws |-> FALSE, records |-> l]
  /\ handlerPc = "start" /\ queries = 0 /\ responses = <<>>
  /\ neighbors = <<>> /\ airportsData = <<>> /\ rendered = FALSE /\ dots = <<>>
  /\ PageUnused /\ FramesUnused

\* handler without its method test: the store is queried for every method.
HandleAnyMethod ==
  /\ handlerPc = "start"
  /\ queries' = queries + 1 /\ handlerPc' = "awaiting"
  /\ UNCHANGED <<dotsVars, pageVars, frameVars, request, store, responses>>

\* handler up to its first await: the method test, then the query is sent.
Handle ==
  /\ handlerPc = "start"
  /\ IF request # "GET"
     THEN /\ responses' = Append(responses,
                                 [status |-> 405,
                                  json |-> [message |-> "Method not allowed"]])
          /\ handlerPc' = "done"
          /\ UNCHANGED queries
     ELSE /\ queries' = queries + 1
          /\ handlerPc' = "awaiting"
          /\ UNCHANGED responses
  /\ UNCHANGED <<dotsVars, pageVars, frameVars, request, store>>

\* .all() resolves: the records are mapped and sent with status 200.
QueryResolves ==
  /\ handlerPc = "awaiting" /\ ~store.throws
  /\ responses' = Append(responses,
                         [status |-> 200,
                          json |-> [neighbors |->
                                      [i \in 1..Len(store.records) |->
                                         toNeighbor(store.records[i])]]])
  /\ handlerPc' = "done"
  /\ UNCHANGED <<dotsVars, pageVars, frameVars, request, store, queries>>

\* The query throws: the catch block answers 500.
QueryThrows ==
  /\ handlerPc = "awaiting" /\ store.throws
  /\ responses' = Append(responses,
                         [status |-> 500,
                          json |-> [message |-> "Error fetching neighbors"]])
  /\ handlerPc' = "done"
  /\ UNCHANGED <<dotsVars, pageVars, frameVars, request, store, queries>>

NextApi == Handle \/ QueryResolves \/ QueryThrows

SpecApi == InitApi /\ [][NextApi]_vars

\* C10: the handler sends no response before it is done and exactly one by
\* then: 405 without a query when the method is not GET; for GET, 200 with
\* one neighbor per record in the store's order when the query succeeds, and
\* 500 without a neighbors list when it throws.
C10_OneResponsePerRequest ==
  /\ handlerPc # "done" => responses = <<>>
  /\ handlerPc = "done" =>
       /\ Len(responses) = 1
       /\ IF request # "GET"
          THEN responses[1].status = 405 /\ queries = 0
          ELSE /\ queries = 1
               /\ IF store.throws
                  THEN /\ responses[1].status = 500
                       /\ "neighbors" \notin DOMAIN responses[1].json
                  ELSE /\ responses[1].status = 200
                       /\ Len(responses[1].json.neighbors) = Len(store.records)
                       /\ \A i \in 1..Len(store.records) :
                            responses[1].json.neighbors[i].id = store.records[i].id

\* C10 witness: a GET has been answered with two different records, in the
\* store's order.
C10_Witness ==
  /\ handlerPc = "done" /\ request = "GET" /\ ~store.throws
  /\ Len(store.records) = 2 /\ store.records[1].id # store.records[2].id
  /\ Len(responses) = 1 /\ responses[1].status = 200

====
